---- MODULE Spec2Model ----
(***************************************************************************)
(* Model of the document progress tracker of paperless-concierge           *)
(* (document_tracker.py): the registry of tracked documents, the           *)
(* background tracking loop and the per-state handlers, together with the  *)
(* upstream document client, the enrichment client and the notifier as     *)
(* nondeterministic collaborators.                                         *)
(***************************************************************************)
EXTENDS Integers, Sequences, FiniteSets, TLC

(* ---- bounds of the model ---- *)
\* number of task ids handed out by upload; each is registered at most once
MaxTasks == 1
\* send calls per item after which the collaborators stop raising
MaxSends == 2
\* retry_count the upstreams let an item reach while an older item is alive
MaxYoungRetries == 0
\* half days the clock of the persistence model advances
MaxClockSteps == 3
\* characters in the content field of a fetched document
MaxText == 2
\* probes made between two changes of the upstream
MaxProbes == 2
\* documents in one search response
MaxResults == 1
\* documents on the page of the listing query
MaxPage == 2
\* bot processes started on the host
MaxProcs == 3

\* the specification of several items at once tracks one item more
PairTasks == MaxTasks + 1
TaskIds == 1..PairTasks
\* document ids the upstream hands out
DocIds == {77, 99}

(* ---- program constants ---- *)
max_retries == 30
CACHE_EXPIRE_TIME == 86400
CONSUMPTION_TIMEOUT == 60
AI_PROCESSING_TIMEOUT == 120
AI_TRIGGER_MAX_RETRIES == 5
\* document_id = None and a falsy id are both "no document id"
NoDocumentId == 0
HTTP_OK == 200
HTTP_NOT_FOUND == 404
\* a status that is neither of the two
HTTP_OTHER == 500
\* page_size of the listing query of _verify_document_searchable
page_size == 50
\* largest pid _is_valid_pid accepts
PID_LIMIT == 1048576
\* timedelta(minutes=10) of _find_recent_document_by_filename
RECENT_MINUTES == 10

\* exception classes a collaborator call can raise; "Exception" stands for
\* every class outside the five the loop names (the bare Exception of
\* get_document_status, telegram's TelegramError, TypeError, ...)
ExcClasses ==
  {"ClientError", "ValueError", "KeyError", "AttributeError", "OSError", "Exception"}

\* except clause around one item's handler in _tracking_loop
InnerCaught == {"ClientError", "ValueError", "KeyError", "AttributeError"}

\* except clause around the whole tick in _tracking_loop
OuterCaught == {"ClientError", "ValueError", "KeyError", "AttributeError", "OSError"}

\* except clause of every _send_*_notification
SendCaught == {"AttributeError", "ValueError", "OSError"}

\* except clause of _handle_processing_state
ProcessingCaught == {"ClientError", "ValueError", "KeyError"}

\* except clause of _find_document_by_uuid, _find_recent_document_by_filename,
\* _is_document_ready and _check_ai_processing
HelperCaught == {"ClientError", "ValueError", "KeyError", "AttributeError"}

\* except clauses inside PaperlessClient.trigger_ai_processing
TriggerCaught == {"ClientError", "ValueError", "KeyError"}

\* states reported by the task-status endpoint
TaskStatuses == {"PENDING", "STARTED", "SUCCESS", "FAILURE"}

Statuses ==
  {"processing", "waiting_for_consumption", "paperless_indexing",
   "triggering_ai", "waiting_for_ai", "completed"}

\* metadata records _check_ai_processing can return (tags, correspondent or
\* document type present); it returns None when none of the three is
AiResults ==
  {[tags |-> TRUE, correspondent |-> FALSE, document_type |-> FALSE],
   [tags |-> FALSE, correspondent |-> TRUE, document_type |-> FALSE],
   [tags |-> FALSE, correspondent |-> FALSE, document_type |-> TRUE]}

VARIABLES
  ai_url,             \* paperless_client.ai_url is configured
  tracking_uuid,      \* the uploads embed a tracking uuid
  doc,                \* the TrackedDocument objects created so far, by task id
  tracked_documents,  \* keys of self.tracked_documents, in insertion order
  background_task,    \* "none" | "running" | "cancelled" | "failed"
  loop_pc,            \* "sleep" | "iter": where _tracking_loop is suspended
  snapshot,           \* list(self.tracked_documents.items()) of the current tick
  idx,                \* position of the for loop in snapshot
  completed_tasks,    \* completed_tasks of the current tick
  cache,              \* task ids in the persisted "tracked_documents" record
  sent,               \* per task id, the number of send_message calls for it
  last,               \* what the latest step of the loop did (observation only)
  hist                \* when switched on, per task id: the status it was registered
                      \* in, the ticks it was part of, the calls of its handler
                      \* (observation only)

VARIABLES
  now,                \* datetime.now(): seconds and microseconds
  reg,                \* upload_time of the live entries of the running process
  store,              \* the persisted "tracked_documents" dict: id -> upload_time string
  stored_at,          \* time of the last cache.set of that key
  saved,              \* the timestamps the strings in store were made from
  slast               \* the latest persistence step (observation only)

storeVars == <<now, reg, store, stored_at, saved, slast>>

VARIABLES
  upstream,           \* what the document server answers to the readiness probe
  item,               \* the TrackedDocument handed to the probe
  probes              \* results of the probes since upstream or item changed

probeVars == <<upstream, item, probes>>

VARIABLES
  lock_file,          \* inode the path of the lock file names, 0 when absent
  inode,              \* content of every file created so far: a pid, 0 when empty
  proc                \* per bot process: where it stands in ensure_singleton

lockVars == <<lock_file, inode, proc>>

VARIABLES
  filename,           \* doc.filename handed to the filename search
  answers,            \* what the server answers to each of the three search terms
  match               \* how the latest filename search ended (observation only)

fileVars == <<filename, answers, match>>

VARIABLES
  page,               \* what the server answers to the listing query of the token search
  hit                 \* how the latest token search ended (observation only)

uuidVars == <<page, hit>>

vars ==
  <<ai_url, tracking_uuid, doc, tracked_documents, background_task, loop_pc, snapshot, idx,
    completed_tasks, cache, sent, last, hist>>

\* TrackedDocument(...) as add_document constructs it
TrackedDocument ==
  [status |-> "processing", document_id |-> NoDocumentId, ai_processed |-> FALSE,
   retry_count |-> 0, ai_analysis |-> <<>>]

\* an object that neither the registry nor the running tick refers to any more
Gone ==
  [status |-> "gone", document_id |-> NoDocumentId, ai_processed |-> FALSE,
   retry_count |-> 0, ai_analysis |-> <<>>]

SeqToSet(s) == {s[i] : i \in 1..Len(s)}

RECURSIVE Without(_, _)
\* the sequence s with the members of R deleted, order kept
Without(s, R) ==
  IF s = <<>> THEN <<>>
  ELSE IF Head(s) \in R THEN Without(Tail(s), R)
       ELSE <<Head(s)>> \o Without(Tail(s), R)

\* the objects still referenced after a step; the others are dropped
Collect(docs, keys, snap) ==
  [t \in DOMAIN docs |->
     IF t \in SeqToSet(keys) \cup SeqToSet(snap) THEN docs[t] ELSE Gone]

NoStep ==
  [op |-> "none", id |-> 0, up |-> "none", exc |-> "none", done |-> FALSE,
   kind |-> "none", result |-> "none", removed |-> {}, imm |-> "none",
   search |-> "none", saved |-> FALSE]

\* one send_message call: delivered, raised and swallowed by the _send_*
\* method, or raised with a class its except clause does not name
SendOutcomes(kind) ==
  {[exc |-> "none", kind |-> kind, result |-> "delivered"],
   [exc |-> "none", kind |-> kind, result |-> "swallowed"]}
  \cup {[exc |-> c, kind |-> kind, result |-> "raised"] :
          c \in ExcClasses \ SendCaught}

\* _send_success_notification with the test on ai_url inverted
SuccessKind_inverted(d) ==
  IF d.ai_analysis # <<>> THEN "success_ai"
  ELSE IF ai_url THEN "success_no_ai"
  ELSE "success_ai_pending"

\* which of the three templates _send_success_notification renders
SuccessKind(d) ==
  IF d.ai_analysis # <<>> THEN "success_ai"
  ELSE IF ~ai_url THEN "success_no_ai"
  ELSE "success_ai_pending"

\* a handler that returned `done` without raising
Ret(d, done, up) ==
  [d |-> d, done |-> done, up |-> up, exc |-> "none", kind |-> "none",
   result |-> "none", search |-> "none"]

\* a handler that let an exception of class c escape
Raise(d, c) ==
  [d |-> d, done |-> FALSE, up |-> "raised", exc |-> c, kind |-> "none",
   result |-> "none", search |-> "none"]

\* a handler whose last statements are `await self._send_X(doc); return True`
SendThenDone(d, kind, up) ==
  {[d |-> d, done |-> (s.exc = "none"), up |-> up, exc |-> s.exc,
    kind |-> s.kind, result |-> s.result, search |-> "none"] :
     s \in SendOutcomes(kind)}

handle_completed_state(d) == {Ret(d, TRUE, "none")}

\* _handle_timeout_check resetting the document id before the notification
handle_timeout_check_cleared(d) ==
  SendThenDone([d EXCEPT !.document_id = NoDocumentId], "timeout", "none")

\* the branch of _handle_timeout_check that fires
handle_timeout_check(d) == SendThenDone(d, "timeout", "none")

\* _handle_processing_state acting on the status the lookup reports: SUCCESS
\* moves the item on, FAILURE sends the processing-failed notification
handle_processing_state_by_status(d) ==
  UNION {IF st = "SUCCESS"
         THEN {Ret([d EXCEPT !.status = "waiting_for_consumption",
                             !.retry_count = 0], FALSE, "returned")}
         ELSE IF st = "FAILURE" THEN SendThenDone(d, "failed", "returned")
         ELSE {Ret([d EXCEPT !.retry_count = @ + 1], FALSE, "returned")} :
           st \in TaskStatuses}
  \cup {IF c \in ProcessingCaught
        THEN IF nf
             THEN Ret([d EXCEPT !.status = "waiting_for_consumption",
                                !.retry_count = 0], FALSE, "not_found")
             ELSE Ret(d, FALSE, "error")
        ELSE [Raise(d, c) EXCEPT !.up = IF nf THEN "not_found" ELSE "raised"] :
          c \in ExcClasses, nf \in BOOLEAN}

handle_processing_state(d) ==
  {Ret([d EXCEPT !.retry_count = @ + 1], FALSE, "returned") : st \in TaskStatuses}
  \cup {IF c \in ProcessingCaught
        THEN IF nf
             THEN Ret([d EXCEPT !.status = "waiting_for_consumption",
                                !.retry_count = 0], FALSE, "not_found")
             ELSE Ret(d, FALSE, "error")
        ELSE [Raise(d, c) EXCEPT !.up = IF nf THEN "not_found" ELSE "raised"] :
          c \in ExcClasses, nf \in BOOLEAN}

\* result of _find_recent_document_by_filename: an id, None (0), or an
\* escaping exception; `by` names the search that ran
find_recent_document_by_filename ==
  [val : DocIds \cup {NoDocumentId}, exc : {"none"}, by : {"filename"}]
  \cup [val : {NoDocumentId}, exc : ExcClasses \ HelperCaught, by : {"filename"}]

\* _find_document_by_uuid falling back to the filename search on a miss
find_document_by_uuid_fallback ==
  [val : DocIds, exc : {"none"}, by : {"uuid"}]
  \cup find_recent_document_by_filename

\* result of _find_document_by_uuid, same shape
find_document_by_uuid ==
  [val : DocIds \cup {NoDocumentId}, exc : {"none"}, by : {"uuid"}]
  \cup [val : {NoDocumentId}, exc : ExcClasses \ HelperCaught, by : {"uuid"}]

\* _handle_waiting_for_consumption_state without `doc.document_id = doc_id`
handle_waiting_for_consumption_state_noid(d) ==
  LET found == IF tracking_uuid THEN find_document_by_uuid
               ELSE find_recent_document_by_filename
      missed == [d EXCEPT !.retry_count = @ + 1]
  IN UNION {
       {[o EXCEPT !.search = f.by] : o \in
          IF f.exc # "none" THEN {Raise(d, f.exc)}
          ELSE IF f.val # NoDocumentId
          THEN {Ret([d EXCEPT !.status = "paperless_indexing",
                              !.retry_count = 0], FALSE, "hit")}
          ELSE IF missed.retry_count >= CONSUMPTION_TIMEOUT
          THEN SendThenDone(missed, "basic", "miss")
          ELSE {Ret(missed, FALSE, "miss")}} : f \in found}

handle_waiting_for_consumption_state(d) ==
  LET found == IF tracking_uuid THEN find_document_by_uuid
               ELSE find_recent_document_by_filename
      missed == [d EXCEPT !.retry_count = @ + 1]
  IN UNION {
       {[o EXCEPT !.search = f.by] : o \in
          IF f.exc # "none" THEN {Raise(d, f.exc)}
          ELSE IF f.val # NoDocumentId
          THEN {Ret([d EXCEPT !.document_id = f.val,
                              !.status = "paperless_indexing",
                              !.retry_count = 0], FALSE, "hit")}
          ELSE IF missed.retry_count >= CONSUMPTION_TIMEOUT
          THEN SendThenDone(missed, "basic", "miss")
          ELSE {Ret(missed, FALSE, "miss")}} : f \in found}

\* result of _is_document_ready: a boolean or an escaping exception
is_document_ready(d) ==
  IF d.document_id = NoDocumentId THEN {[val |-> FALSE, exc |-> "none"]}
  ELSE [val : BOOLEAN, exc : {"none"}]
       \cup [val : {FALSE}, exc : ExcClasses \ HelperCaught]

\* _handle_paperless_indexing_state jumping over the trigger stage
handle_paperless_indexing_state_skip(d) ==
  {IF r.exc # "none" THEN Raise(d, r.exc)
   ELSE IF r.val
   THEN Ret([d EXCEPT !.status = "waiting_for_ai", !.retry_count = 0], FALSE,
            "hit")
   ELSE Ret([d EXCEPT !.retry_count = @ + 1], FALSE, "miss") :
     r \in is_document_ready(d)}

handle_paperless_indexing_state(d) ==
  {IF r.exc # "none" THEN Raise(d, r.exc)
   ELSE IF r.val
   THEN Ret([d EXCEPT !.status = "triggering_ai", !.retry_count = 0], FALSE,
            "hit")
   ELSE Ret([d EXCEPT !.retry_count = @ + 1], FALSE, "miss") :
     r \in is_document_ready(d)}

\* result of PaperlessClient.trigger_ai_processing
trigger_ai_processing ==
  [val : BOOLEAN, exc : {"none"}]
  \cup [val : {FALSE}, exc : ExcClasses \ TriggerCaught]

\* _handle_triggering_ai_state without `doc.retry_count = 0` after the trigger
handle_triggering_ai_state_noreset(d) ==
  IF ai_url
  THEN LET failed == [d EXCEPT !.retry_count = @ + 1]
       IN UNION {
            IF t.exc # "none" THEN {Raise(d, t.exc)}
            ELSE IF t.val
            THEN {Ret([d EXCEPT !.status = "waiting_for_ai"], FALSE, "hit")}
            ELSE IF failed.retry_count >= AI_TRIGGER_MAX_RETRIES
            THEN SendThenDone(failed, "basic", "miss")
            ELSE {Ret(failed, FALSE, "miss")} : t \in trigger_ai_processing}
  ELSE LET fin == [d EXCEPT !.status = "completed"]
       IN SendThenDone(fin, SuccessKind(fin), "none")

handle_triggering_ai_state(d) ==
  IF ai_url
  THEN LET failed == [d EXCEPT !.retry_count = @ + 1]
       IN UNION {
            IF t.exc # "none" THEN {Raise(d, t.exc)}
            ELSE IF t.val
            THEN {Ret([d EXCEPT !.status = "waiting_for_ai",
                                !.retry_count = 0], FALSE, "hit")}
            ELSE IF failed.retry_count >= AI_TRIGGER_MAX_RETRIES
            THEN SendThenDone(failed, "basic", "miss")
            ELSE {Ret(failed, FALSE, "miss")} : t \in trigger_ai_processing}
  ELSE LET fin == [d EXCEPT !.status = "completed"]
       IN SendThenDone(fin, SuccessKind(fin), "none")

\* _check_ai_processing returning ai_result without the test of l.438-442
check_ai_processing_unfiltered(d) ==
  IF d.document_id = NoDocumentId THEN {[val |-> <<>>, exc |-> "none"]}
  ELSE [val : {<<r>> : r \in [tags : BOOLEAN, correspondent : BOOLEAN,
                               document_type : BOOLEAN]},
        exc : {"none"}]
       \cup [val : {<<>>}, exc : ExcClasses \ HelperCaught]

\* result of _check_ai_processing: metadata, None (<<>>) or an escaping exception
check_ai_processing(d) ==
  IF d.document_id = NoDocumentId THEN {[val |-> <<>>, exc |-> "none"]}
  ELSE [val : {<<r>> : r \in AiResults} \cup {<<>>}, exc : {"none"}]
       \cup [val : {<<>>}, exc : ExcClasses \ HelperCaught]

\* _handle_waiting_for_ai_state without `doc.ai_processed = True`
handle_waiting_for_ai_state_unmarked(d) ==
  LET missed == [d EXCEPT !.retry_count = @ + 1]
  IN UNION {
       IF a.exc # "none" THEN {Raise(d, a.exc)}
       ELSE IF a.val # <<>>
       THEN LET fin == [d EXCEPT !.ai_analysis = a.val, !.status = "completed"]
            IN SendThenDone(fin, SuccessKind(fin), "hit")
       ELSE IF missed.retry_count >= AI_PROCESSING_TIMEOUT
       THEN SendThenDone(missed, "basic", "miss")
       ELSE {Ret(missed, FALSE, "miss")} : a \in check_ai_processing(d)}

handle_waiting_for_ai_state(d) ==
  LET missed == [d EXCEPT !.retry_count = @ + 1]
  IN UNION {
       IF a.exc # "none" THEN {Raise(d, a.exc)}
       ELSE IF a.val # <<>>
       THEN LET fin == [d EXCEPT !.ai_analysis = a.val, !.ai_processed = TRUE,
                                 !.status = "completed"]
            IN SendThenDone(fin, SuccessKind(fin), "hit")
       ELSE IF missed.retry_count >= AI_PROCESSING_TIMEOUT
       THEN SendThenDone(missed, "basic", "miss")
       ELSE {Ret(missed, FALSE, "miss")} : a \in check_ai_processing(d)}

\* _process_document_state with `>` for `>=` in the timeout check
process_document_state_late(d) ==
  IF d.status = "completed" THEN handle_completed_state(d)
  ELSE IF d.retry_count > max_retries THEN handle_timeout_check(d)
  ELSE CASE d.status = "processing" -> handle_processing_state(d)
         [] d.status = "waiting_for_consumption" ->
              handle_waiting_for_consumption_state(d)
         [] d.status = "paperless_indexing" -> handle_paperless_indexing_state(d)
         [] d.status = "triggering_ai" -> handle_triggering_ai_state(d)
         [] d.status = "waiting_for_ai" -> handle_waiting_for_ai_state(d)
         [] OTHER -> {Ret(d, FALSE, "none")}

\* _process_document_state going on to the next handler in the same call when
\* the lookup of an item in processing reports "Not found"
process_document_state_through(d) ==
  IF d.status = "completed" THEN handle_completed_state(d)
  ELSE IF d.retry_count >= max_retries THEN handle_timeout_check(d)
  ELSE CASE d.status = "processing" ->
              UNION {IF o.exc = "none" /\ o.d.status = "waiting_for_consumption"
                     THEN handle_waiting_for_consumption_state(o.d)
                     ELSE {o} : o \in handle_processing_state(d)}
         [] d.status = "waiting_for_consumption" ->
              handle_waiting_for_consumption_state(d)
         [] d.status = "paperless_indexing" -> handle_paperless_indexing_state(d)
         [] d.status = "triggering_ai" -> handle_triggering_ai_state(d)
         [] d.status = "waiting_for_ai" -> handle_waiting_for_ai_state(d)
         [] OTHER -> {Ret(d, FALSE, "none")}

\* every way one call of _process_document_state on d can end
process_document_state(d) ==
  IF d.status = "completed" THEN handle_completed_state(d)
  ELSE IF d.retry_count >= max_retries THEN handle_timeout_check(d)
  ELSE CASE d.status = "processing" -> handle_processing_state(d)
         [] d.status = "waiting_for_consumption" ->
              handle_waiting_for_consumption_state(d)
         [] d.status = "paperless_indexing" -> handle_paperless_indexing_state(d)
         [] d.status = "triggering_ai" -> handle_triggering_ai_state(d)
         [] d.status = "waiting_for_ai" -> handle_waiting_for_ai_state(d)
         [] OTHER -> {Ret(d, FALSE, "none")}

\* an empty dict
EmptyDict == [i \in {} |-> <<>>]

\* the persistence model at rest
StoreIdle ==
  /\ now = [secs |-> 0, micro |-> 0]
  /\ reg = EmptyDict
  /\ store = EmptyDict
  /\ stored_at = [secs |-> 0, micro |-> 0]
  /\ saved = EmptyDict
  /\ slast = [op |-> "none", had |-> {}]

\* ---- the readiness probe: _is_document_ready, _verify_document_searchable ----

Chars == {" ", "x"}

\* strings of at most MaxText characters
Texts == UNION {[1..n -> Chars] : n \in 0..MaxText}

\* the "content" key of the fetched document: absent, null, or a string
Contents ==
  {[kind |-> "missing", text |-> <<>>], [kind |-> "null", text |-> <<>>]}
  \cup [kind : {"str"}, text : Texts]

\* where a request of the probe raises, and the class it raises
Failures ==
  {[at |-> "none", exc |-> "none"]} \cup [at : {"get", "list"}, exc : ExcClasses]

\* position of a document in the listing ordered by -created; 0: not stored
Ranks == {0, page_size, page_size + 1}

\* answers of the document server to the two requests of the probe; a
\* "created" that is missing, null or empty is "absent"
Upstreams ==
  [fail : Failures, status : {HTTP_OK, HTTP_NOT_FOUND, HTTP_OTHER},
   content : Contents, created : {"absent", "date"},
   list_status : {HTTP_OK, HTTP_OTHER}, listed : DocIds, rank : Ranks]

\* items the probe is called on
ProbeItems ==
  {[TrackedDocument EXCEPT !.status = "paperless_indexing", !.document_id = i] :
     i \in {NoDocumentId, 77}}

RECURSIVE lstrip(_)
lstrip(s) ==
  IF s = <<>> THEN s ELSE IF Head(s) = " " THEN lstrip(Tail(s)) ELSE s

RECURSIVE rstrip(_)
rstrip(s) ==
  IF s = <<>> THEN s
  ELSE IF s[Len(s)] = " " THEN rstrip(SubSeq(s, 1, Len(s) - 1)) ELSE s

\* str.strip() that leaves the string as it is
strip_kept(s) == s

\* str.strip()
strip(s) == rstrip(lstrip(s))

\* `return v` of a helper
HelperReturn(v) == [val |-> v, exc |-> "none"]

\* an exception of class c raised inside the try block of a helper
HelperRaise(c) ==
  IF c \in HelperCaught THEN HelperReturn(FALSE) ELSE [val |-> FALSE, exc |-> c]

\* "results" of the listing response: the first page_size documents
results(u) == IF 1 <= u.rank /\ u.rank <= page_size THEN {u.listed} ELSE {}

\* _verify_document_searchable(doc) against the upstream u
verify_document_searchable(d, u) ==
  IF u.fail.at = "list" THEN HelperRaise(u.fail.exc)
  ELSE IF u.list_status = HTTP_OK
  THEN HelperReturn(d.document_id \in results(u))
  ELSE HelperReturn(FALSE)

\* _is_document_ready(doc) against the upstream u
is_document_ready_at(d, u) ==
  IF d.document_id = NoDocumentId THEN HelperReturn(FALSE)
  ELSE IF u.fail.at = "get" THEN HelperRaise(u.fail.exc)
  ELSE IF u.status = HTTP_NOT_FOUND THEN HelperReturn(FALSE)
  ELSE IF u.status # HTTP_OK THEN HelperReturn(FALSE)
  ELSE IF u.content.kind = "null" THEN HelperRaise("AttributeError")
  ELSE LET has_content == strip(u.content.text) # <<>>
           has_created_date == u.created = "date"
           is_indexed == has_content /\ has_created_date
       IN IF is_indexed THEN verify_document_searchable(d, u)
          ELSE HelperReturn(FALSE)

\* the probe model at rest
ProbeIdle ==
  /\ upstream = [fail |-> [at |-> "none", exc |-> "none"], status |-> HTTP_NOT_FOUND,
                  content |-> [kind |-> "missing", text |-> <<>>],
                  created |-> "absent", list_status |-> HTTP_OK, listed |-> 99,
                  rank |-> 0]
  /\ item = [TrackedDocument EXCEPT !.status = "paperless_indexing"]
  /\ probes = <<>>

\* ---- the instance lock: ensure_singleton ----

\* pids of the bot processes
Procs == 2..(MaxProcs + 1)

NotStarted == [pc |-> "idle", fd |-> 0, rfd |-> 0, existing |-> 0]

\* no bot process started, no lock file
LockIdle ==
  /\ lock_file = 0
  /\ inode = <<>>
  /\ proc = [p \in Procs |-> NotStarted]

\* ---- the filename search: _find_recent_document_by_filename ----

\* file names of uploads, character by character
FileNames ==
  {<<"a">>, <<"a", ".", "b">>, <<"a", ".", "b", ".", "c">>}

RECURSIVE before_dot(_)
\* filename.split(".")[0]: the characters before the first dot
before_dot(s) ==
  IF s = <<>> \/ Head(s) = "." THEN <<>> ELSE <<Head(s)>> \o before_dot(Tail(s))

\* search_terms of _find_recent_document_by_filename
search_terms(name) == <<before_dot(name), name, <<>>>>

\* the "created" key of a search result: absent, not a date, a date without
\* or with a UTC offset; `at` is its instant in minutes after upload_time
Createds ==
  {[kind |-> "absent", at |-> 0], [kind |-> "garbage", at |-> 0],
   [kind |-> "naive", at |-> 0 - RECENT_MINUTES - 1],
   [kind |-> "naive", at |-> 0 - RECENT_MINUTES],
   [kind |-> "aware", at |-> 0]}

\* one entry of "results"; id 0: no id
Candidates == [id : DocIds \cup {NoDocumentId}, created : Createds]

\* what _search_documents_by_term ends with: an exception, or a response with
\* its "results" (None and an empty list alike are <<>>)
Answers ==
  [exc : {"ClientError", "AttributeError", "Exception"}, results : {<<>>}]
  \cup [exc : {"none"},
        results : UNION {[1..n -> Candidates] : n \in 0..MaxResults}]

\* except clause around one search term in _find_recent_document_by_filename
TermCaught == {"ClientError", "ValueError", "KeyError"}

\* _is_document_recent(doc_created, time_threshold) with the naive
\* upload_time of add_document: parse() raises ValueError on what is no date,
\* and >= raises TypeError between an aware and a naive datetime; both are
\* caught and give False
is_document_recent(created, time_threshold) ==
  IF created.kind = "garbage" THEN FALSE
  ELSE IF created.kind = "aware" THEN FALSE
  ELSE created.at >= time_threshold

\* the entries of results the inner for loop returns on
Recent(found, time_threshold) ==
  {k \in 1..Len(found) :
     /\ found[k].created.kind # "absent"
     /\ found[k].id # NoDocumentId
     /\ is_document_recent(found[k].created, time_threshold)}

RECURSIVE scan_terms(_, _, _)
\* the for loop over search_terms from term i on
scan_terms(ans, i, time_threshold) ==
  IF i > Len(ans) THEN [val |-> NoDocumentId, exc |-> "none", tried |-> i - 1]
  ELSE IF ans[i].exc \in TermCaught THEN scan_terms(ans, i + 1, time_threshold)
  ELSE IF ans[i].exc \in HelperCaught
  THEN [val |-> NoDocumentId, exc |-> "none", tried |-> i]
  ELSE IF ans[i].exc # "none"
  THEN [val |-> NoDocumentId, exc |-> ans[i].exc, tried |-> i]
  ELSE LET r == Recent(ans[i].results, time_threshold)
       IN IF r # {}
          THEN [val |-> ans[i].results[CHOOSE k \in r : \A j \in r : k <= j].id,
                exc |-> "none", tried |-> i]
          ELSE scan_terms(ans, i + 1, time_threshold)

\* _find_recent_document_by_filename(client, name, upload_time) against the
\* answers ans; upload_time is minute 0
find_recent_document_by_filename_at(name, ans) ==
  scan_terms(ans, 1, 0 - RECENT_MINUTES)

NoAnswer == [exc |-> "none", results |-> <<>>]

\* no search made since the last change
NoMatch ==
  [op |-> "none", terms |-> <<>>, val |-> NoDocumentId, exc |-> "none",
   tried |-> 0]

\* the filename search model at rest
FileIdle ==
  /\ filename = <<"a">>
  /\ answers = <<NoAnswer, NoAnswer, NoAnswer>>
  /\ match = NoMatch

\* ---- the token search: _find_document_by_uuid ----

\* a field of a listed document: it contains the token, does not, or is null
\* (the title is never null)
Listed ==
  [id : DocIds, original_file_name : {"token", "other", "null"},
   title : {"token", "other"}]

\* what the listing query ends with
Pages ==
  [exc : ExcClasses \cup {"none"}, status : {HTTP_OK, HTTP_OTHER},
   results : UNION {[1..n -> Listed] : n \in 0..MaxPage}]

\* an exception of class c raised inside the try block of
\* _find_document_by_uuid
SearchRaise(c) ==
  IF c \in HelperCaught THEN HelperReturn(NoDocumentId)
  ELSE [val |-> NoDocumentId, exc |-> c]

RECURSIVE scan_page(_, _)
\* the for loop over results from entry k on: `tracking_uuid in
\* original_name` raises TypeError, which no except clause of the helper
\* names, when the name is None
scan_page(listed, k) ==
  IF k > Len(listed) THEN HelperReturn(NoDocumentId)
  ELSE IF listed[k].original_file_name = "null" THEN SearchRaise("Exception")
  ELSE IF listed[k].original_file_name = "token" \/ listed[k].title = "token"
  THEN HelperReturn(listed[k].id)
  ELSE scan_page(listed, k + 1)

\* _find_document_by_uuid(client, tracking_uuid) against the page pg
find_document_by_uuid_at(pg) ==
  IF pg.exc # "none" THEN SearchRaise(pg.exc)
  ELSE IF pg.status = HTTP_OK THEN scan_page(pg.results, 1)
  ELSE HelperReturn(NoDocumentId)

\* no token search made since the last change
NoHit == [op |-> "none", val |-> NoDocumentId, exc |-> "none"]

\* the token search model at rest
UuidIdle ==
  /\ page = [exc |-> "none", status |-> HTTP_OK, results |-> <<>>]
  /\ hit = NoHit

Init ==
  /\ StoreIdle
  /\ ProbeIdle
  /\ LockIdle
  /\ FileIdle
  /\ UuidIdle
  /\ ai_url \in BOOLEAN
  /\ tracking_uuid \in BOOLEAN
  /\ doc = <<>>
  /\ tracked_documents = <<>>
  /\ background_task = "none"
  /\ loop_pc = "sleep"
  /\ snapshot = <<>>
  /\ idx = 1
  /\ completed_tasks = <<>>
  /\ cache = {}
  /\ sent = [t \in TaskIds |-> 0]
  /\ last = NoStep
  /\ hist = [on |-> FALSE, of |-> <<>>]

\* the immediate_status argument of add_document: absent, or a dict with a
\* status, a top-level document_id and a result.document_id (0: missing)
ImmediateStatuses ==
  [status : {"absent", "SUCCESS", "FAILURE"},
   document_id : DocIds \cup {NoDocumentId},
   result_document_id : DocIds \cup {NoDocumentId}]

\* `a or b` reading only the top-level document_id
OrElse_first(a, b) == a

\* `a or b` on optional document ids
OrElse(a, b) == IF a # NoDocumentId THEN a ELSE b

\* _save_state leaving the persisted record as it was
save_state_stale(keys) == cache

\* _save_state: the persisted record holds exactly the registry's keys
save_state(keys) == SeqToSet(keys)

\* the loop is between its last handler and its cleanup, where it never yields
InCleanup == loop_pc = "iter" /\ idx > Len(snapshot)

\* edges of the longest path through the lifecycle
PathEdges == Cardinality(Statuses) - 1

\* the counters of hist stop at PathEdges
Counted(n) == IF n < PathEdges THEN n + 1 ELSE n

NoHist == [from |-> "gone", ticks |-> 0, calls |-> 0]

\* hist after a step that leaves the objects docs, began a tick with the items
\* ticked in its snapshot and called the handler of the items called
Tally(ticked, called, docs) ==
  IF ~hist.on THEN hist
  ELSE [hist EXCEPT !.of =
          [t \in DOMAIN docs |->
             IF docs[t] = Gone THEN NoHist
             ELSE LET e == IF t \in DOMAIN hist.of THEN hist.of[t]
                           ELSE [from |-> docs[t].status, ticks |-> 0, calls |-> 0]
                  IN [e EXCEPT !.ticks = IF t \in ticked THEN Counted(@) ELSE @,
                               !.calls = IF t \in called THEN Counted(@) ELSE @]]]

add_document(imm, cap) ==
  LET task_id == Len(doc) + 1
      doc_id == OrElse(imm.document_id, imm.result_document_id)
      d == IF imm.status = "SUCCESS" /\ doc_id # NoDocumentId
           THEN [TrackedDocument EXCEPT !.document_id = doc_id,
                                        !.status = "paperless_indexing"]
           ELSE TrackedDocument
  IN /\ Len(doc) < cap
     /\ ~InCleanup
     /\ doc' = Append(doc, d)
     /\ tracked_documents' = Append(tracked_documents, task_id)
     /\ cache' = save_state(tracked_documents')
     /\ last' = [NoStep EXCEPT !.op = "add", !.id = task_id, !.imm = imm,
                                !.saved = TRUE]
     /\ hist' = Tally({}, {}, doc')
     /\ UNCHANGED <<storeVars, probeVars, lockVars, fileVars, uuidVars, ai_url, tracking_uuid, background_task, loop_pc, snapshot,
                    idx, completed_tasks, sent>>

AddDocument == \E imm \in ImmediateStatuses : add_document(imm, MaxTasks)

AddDocumentPair == \E imm \in ImmediateStatuses : add_document(imm, PairTasks)

\* start_tracking clearing the registry only when it creates the loop task
start_tracking_keep ==
  /\ ~InCleanup
  /\ IF background_task \in {"none", "cancelled", "failed"}
     THEN /\ tracked_documents' = <<>>
          /\ background_task' = "running"
          /\ loop_pc' = "sleep"
          /\ snapshot' = <<>>
          /\ idx' = 1
          /\ completed_tasks' = <<>>
     ELSE UNCHANGED <<tracked_documents, background_task, loop_pc, snapshot, idx,
                      completed_tasks>>
  /\ doc' = Collect(doc, tracked_documents', snapshot')
  /\ last' = [NoStep EXCEPT !.op = "start"]
  /\ hist' = Tally({}, {}, doc')
  /\ UNCHANGED <<storeVars, probeVars, lockVars, fileVars, uuidVars, ai_url, tracking_uuid, cache, sent>>

\* start_tracking: clear the registry, create the loop task unless one is
\* still not done
start_tracking ==
  /\ ~InCleanup
  /\ tracked_documents' = <<>>
  /\ IF background_task \in {"none", "cancelled", "failed"}
     THEN /\ background_task' = "running"
          /\ loop_pc' = "sleep"
          /\ snapshot' = <<>>
          /\ idx' = 1
          /\ completed_tasks' = <<>>
     ELSE UNCHANGED <<background_task, loop_pc, snapshot, idx, completed_tasks>>
  /\ doc' = Collect(doc, tracked_documents', snapshot')
  /\ last' = [NoStep EXCEPT !.op = "start"]
  /\ hist' = Tally({}, {}, doc')
  /\ UNCHANGED <<storeVars, probeVars, lockVars, fileVars, uuidVars, ai_url, tracking_uuid, cache, sent>>

\* the loop task is suspended in an await: the sleep, or an await of the
\* handler of the current item (_handle_completed_state has none)
Awaiting ==
  \/ loop_pc = "sleep"
  \/ /\ idx <= Len(snapshot)
     /\ doc[snapshot[idx]].status # "completed"

\* what a CancelledError thrown into the handler of d leaves behind: nothing
\* when it arrives at the upstream call, and at the await of the send the
\* assignments made before it, with the message gone out (inc 1) or not
interrupted(d) ==
  {[d |-> d, inc |-> 0]}
  \cup {[d |-> o.d, inc |-> i] :
          o \in {x \in process_document_state(d) : x.kind # "none"}, i \in {0, 1}}

\* stop_tracking: request cancellation of a task that is not done
stop_tracking ==
  /\ Awaiting
  /\ background_task = "running"
  /\ background_task' = "cancelling"
  /\ last' = [NoStep EXCEPT !.op = "stop"]
  /\ UNCHANGED <<storeVars, probeVars, lockVars, fileVars, uuidVars, ai_url, tracking_uuid, doc, tracked_documents, loop_pc,
                 snapshot, idx, completed_tasks, cache, sent, hist>>

\* the CancelledError is thrown into the loop at the await it is suspended on
\* (the sleep, or an await of the current item's handler) and ends the loop;
\* nothing of the loop runs between the request and this delivery, and the
\* rest of the tick, its cleanup included, is skipped
CancelDelivered ==
  /\ background_task = "cancelling"
  /\ ~InCleanup
  /\ background_task' = "cancelled"
  /\ loop_pc' = "sleep"
  /\ snapshot' = <<>>
  /\ idx' = 1
  /\ completed_tasks' = <<>>
  /\ IF loop_pc = "sleep"
     THEN /\ doc' = Collect(doc, tracked_documents, snapshot')
          /\ last' = [NoStep EXCEPT !.op = "cancelled"]
          /\ hist' = Tally({}, {}, doc')
          /\ UNCHANGED sent
     ELSE LET id == snapshot[idx] IN
          \E p \in interrupted(doc[id]) :
            /\ doc' = Collect([doc EXCEPT ![id] = p.d], tracked_documents,
                              snapshot')
            /\ sent' = [sent EXCEPT ![id] = @ + p.inc]
            /\ last' = [NoStep EXCEPT !.op = "cancelled", !.id = id]
            /\ hist' = Tally({}, {id}, doc')
  /\ UNCHANGED <<storeVars, probeVars, lockVars, fileVars, uuidVars, ai_url, tracking_uuid, tracked_documents, cache>>

\* asyncio.sleep returns: snapshot the registry and enter the for loop
TickBegin ==
  /\ background_task = "running"
  /\ loop_pc = "sleep"
  /\ loop_pc' = "iter"
  /\ snapshot' = tracked_documents
  /\ idx' = 1
  /\ completed_tasks' = <<>>
  /\ last' = [NoStep EXCEPT !.op = "begin"]
  /\ hist' = Tally(SeqToSet(tracked_documents), {}, doc)
  /\ UNCHANGED <<storeVars, probeVars, lockVars, fileVars, uuidVars, ai_url, tracking_uuid, doc, tracked_documents, background_task,
                 cache, sent>>

\* the oldest object still referenced
Oldest(id) == \A t \in 1..(id - 1) : doc[t] = Gone

\* what the collaborators are allowed to do to item id in this step: they
\* raise only while every item is below the send bound, and they keep an
\* item waiting beyond MaxYoungRetries only when it is the oldest one
Admissible(id, o, newSent) ==
  /\ o.exc = "none" \/ \A t \in TaskIds : newSent[t] < MaxSends
  /\ \/ Oldest(id)
     \/ o.d.retry_count + (IF o.exc \in InnerCaught THEN 1 ELSE 0) <= MaxYoungRetries

\* one iteration of the for loop: the handler of snapshot[idx] runs to its
\* return or its exception, and the loop's except clauses act on it
ProcessItem ==
  /\ background_task = "running"
  /\ loop_pc = "iter"
  /\ idx <= Len(snapshot)
  /\ LET id == snapshot[idx] IN
     \E o \in process_document_state(doc[id]) :
       LET newSent == [sent EXCEPT ![id] = @ + (IF o.kind # "none" THEN 1 ELSE 0)]
       IN
       /\ Admissible(id, o, newSent)
       /\ sent' = newSent
       /\ last' = [NoStep EXCEPT !.op = "item", !.id = id, !.up = o.up,
                                 !.exc = o.exc, !.done = o.done,
                                 !.kind = o.kind, !.result = o.result,
                                 !.search = o.search]
       /\ IF o.exc = "none"
          THEN /\ doc' = [doc EXCEPT ![id] = o.d]
               /\ completed_tasks' =
                    IF o.done THEN Append(completed_tasks, id) ELSE completed_tasks
               /\ idx' = idx + 1
               /\ UNCHANGED <<background_task, loop_pc, snapshot>>
          ELSE IF o.exc \in InnerCaught
          THEN /\ doc' = [doc EXCEPT ![id] = [o.d EXCEPT !.retry_count = @ + 1]]
               /\ idx' = idx + 1
               /\ UNCHANGED <<background_task, loop_pc, snapshot, completed_tasks>>
          ELSE /\ background_task' =
                    IF o.exc \in OuterCaught THEN background_task ELSE "failed"
               /\ loop_pc' = "sleep"
               /\ snapshot' = <<>>
               /\ idx' = 1
               /\ completed_tasks' = <<>>
               /\ doc' = Collect([doc EXCEPT ![id] = o.d], tracked_documents,
                                 snapshot')
       /\ hist' = Tally({}, {id}, doc')
  /\ UNCHANGED <<storeVars, probeVars, lockVars, fileVars, uuidVars, ai_url, tracking_uuid, tracked_documents, cache>>

\* after the for loop: delete the completed items, save if there were any,
\* go back to sleep
TickEnd ==
  /\ background_task = "running"
  /\ InCleanup
  /\ tracked_documents' = Without(tracked_documents, SeqToSet(completed_tasks))
  /\ cache' = IF completed_tasks # <<>> THEN save_state(tracked_documents')
              ELSE cache
  /\ loop_pc' = "sleep"
  /\ snapshot' = <<>>
  /\ idx' = 1
  /\ completed_tasks' = <<>>
  /\ doc' = Collect(doc, tracked_documents', snapshot')
  /\ last' = [NoStep EXCEPT !.op = "end",
                            !.removed = SeqToSet(completed_tasks)
                                          \cap SeqToSet(tracked_documents),
                            !.saved = (completed_tasks # <<>>)]
  /\ hist' = Tally({}, {}, doc')
  /\ UNCHANGED <<storeVars, probeVars, lockVars, fileVars, uuidVars, ai_url, tracking_uuid, background_task, sent>>

Next ==
  \/ AddDocument
  \/ start_tracking
  \/ stop_tracking
  \/ CancelDelivered
  \/ TickBegin
  \/ ProcessItem
  \/ TickEnd

Spec == Init /\ [][Next]_vars

\* the same program with one more item registered
NextPair ==
  \/ AddDocumentPair
  \/ start_tracking
  \/ stop_tracking
  \/ CancelDelivered
  \/ TickBegin
  \/ ProcessItem
  \/ TickEnd

SpecPair == Init /\ [][NextPair]_vars

\* the tracker with hist switched on
InitCounting ==
  /\ StoreIdle
  /\ ProbeIdle
  /\ LockIdle
  /\ FileIdle
  /\ UuidIdle
  /\ ai_url \in BOOLEAN
  /\ tracking_uuid \in BOOLEAN
  /\ doc = <<>>
  /\ tracked_documents = <<>>
  /\ background_task = "none"
  /\ loop_pc = "sleep"
  /\ snapshot = <<>>
  /\ idx = 1
  /\ completed_tasks = <<>>
  /\ cache = {}
  /\ sent = [t \in TaskIds |-> 0]
  /\ last = NoStep
  /\ hist = [on |-> TRUE, of |-> <<>>]

SpecCounting == InitCounting /\ [][Next]_vars

\* the tracker right after start_tracking on a fresh instance
InitTicking ==
  /\ StoreIdle
  /\ ProbeIdle
  /\ LockIdle
  /\ FileIdle
  /\ UuidIdle
  /\ ai_url \in BOOLEAN
  /\ tracking_uuid \in BOOLEAN
  /\ doc = <<>>
  /\ tracked_documents = <<>>
  /\ background_task = "running"
  /\ loop_pc = "sleep"
  /\ snapshot = <<>>
  /\ idx = 1
  /\ completed_tasks = <<>>
  /\ cache = {}
  /\ sent = [t \in TaskIds |-> 0]
  /\ last = NoStep
  /\ hist = [on |-> FALSE, of |-> <<>>]

\* a started tracker that nobody stops or restarts
NextTicking ==
  \/ AddDocument
  \/ TickBegin
  \/ ProcessItem
  \/ TickEnd

\* fair ticking: the sleep returns, the current handler returns or raises, the
\* cleanup runs
FairSpec ==
  /\ InitTicking
  /\ [][NextTicking]_vars
  /\ WF_vars(TickBegin)
  /\ WF_vars(ProcessItem)
  /\ WF_vars(TickEnd)

TypeOK ==
  /\ Len(doc) <= PairTasks
  /\ \A t \in DOMAIN doc :
       doc[t].status \in Statuses \cup {"gone"} /\ doc[t].retry_count >= 0
  /\ SeqToSet(tracked_documents) \subseteq DOMAIN doc

Registered(t) == t \in SeqToSet(tracked_documents)

\* ---- the persisted snapshot: _save_state, _restore_state ----

StoreIds == 1..PairTasks

\* microsecond parts datetime.now() takes here
Micros == {0, 500000}

HalfDay == CACHE_EXPIRE_TIME \div 2

\* datetime.isoformat() with timespec="seconds"
isoformat_seconds(ts) == <<ts.secs>>

\* datetime.isoformat(): the fraction is printed only when it is not zero
isoformat(ts) == IF ts.micro = 0 THEN <<ts.secs>> ELSE <<ts.secs, ts.micro>>

\* datetime.fromisoformat accepts the string
parses(str) == Len(str) \in {1, 2}

\* datetime.fromisoformat of a string it accepts
fromisoformat(str) ==
  IF Len(str) = 1 THEN [secs |-> str[1], micro |-> 0]
  ELSE [secs |-> str[1], micro |-> str[2]]

\* (t1 - t0).total_seconds() > CACHE_EXPIRE_TIME
Older(t1, t0) ==
  LET ds == t1.secs - t0.secs
      dm == t1.micro - t0.micro
  IN ds > CACHE_EXPIRE_TIME \/ (ds = CACHE_EXPIRE_TIME /\ dm > 0)

\* the key set at t0 with expire=CACHE_EXPIRE_TIME is gone at t1
Expired(t1, t0) ==
  LET ds == t1.secs - t0.secs
      dm == t1.micro - t0.micro
  IN ds > CACHE_EXPIRE_TIME \/ (ds = CACHE_EXPIRE_TIME /\ dm >= 0)

\* state_data of _save_state for the registry r
state_data(r) == [i \in DOMAIN r |-> [upload_time |-> isoformat(r[i])]]

\* self.cache.get("tracked_documents", {})
cache_get == IF Expired(now, stored_at) THEN EmptyDict ELSE store

\* doc_dict["upload_time"] raises KeyError for some entry of data
KeyMissing(data) == \E i \in DOMAIN data : "upload_time" \notin DOMAIN data[i]

\* old_entries of _restore_state: too old, or malformed
old_entries(data) ==
  {i \in DOMAIN data :
     \/ ~parses(data[i].upload_time)
     \/ Older(now, fromisoformat(data[i].upload_time))}

\* add_document at the current time, with its _save_state
StoreAdd ==
  /\ \E i \in StoreIds \ DOMAIN reg :
       /\ reg' = [j \in DOMAIN reg \cup {i} |-> IF j = i THEN now ELSE reg[j]]
       /\ slast' = [op |-> "add", had |-> DOMAIN reg]
  /\ store' = state_data(reg')
  /\ saved' = reg'
  /\ stored_at' = now
  /\ UNCHANGED <<vars, probeVars, lockVars, fileVars, uuidVars, now>>

\* the cleanup of a tick deleting one finished item, with its _save_state
StoreRemove ==
  /\ \E i \in DOMAIN reg :
       /\ reg' = [j \in DOMAIN reg \ {i} |-> reg[j]]
       /\ slast' = [op |-> "remove", had |-> DOMAIN reg]
  /\ store' = state_data(reg')
  /\ saved' = reg'
  /\ stored_at' = now
  /\ UNCHANGED <<vars, probeVars, lockVars, fileVars, uuidVars, now>>

\* time passes
Advance ==
  /\ now.secs < MaxClockSteps * HalfDay
  /\ \E m \in Micros : now' = [secs |-> now.secs + HalfDay, micro |-> m]
  /\ slast' = [op |-> "advance", had |-> DOMAIN reg]
  /\ UNCHANGED <<vars, probeVars, lockVars, fileVars, uuidVars, reg, store, stored_at, saved>>

\* a persisted record whose upload_time string got damaged, or that has no
\* upload_time at all
Corrupt ==
  /\ \E i \in DOMAIN store :
       /\ "upload_time" \in DOMAIN store[i]
       /\ parses(store[i].upload_time)
       /\ \E e \in {[upload_time |-> <<>>], [filename |-> "unknown"]} :
            store' = [store EXCEPT ![i] = e]
  /\ slast' = [op |-> "corrupt", had |-> DOMAIN reg]
  /\ UNCHANGED <<vars, probeVars, lockVars, fileVars, uuidVars, now, reg, stored_at, saved>>

\* a new process constructs its DocumentTracker: empty registry, then
\* _restore_state, which rewrites the key only when it dropped entries; the
\* KeyError of an entry without upload_time ends it before it drops any
Restart ==
  LET data == cache_get
      old == IF KeyMissing(data) THEN {} ELSE old_entries(data)
  IN /\ reg' = EmptyDict
     /\ store' = [i \in DOMAIN data \ old |-> data[i]]
     /\ stored_at' = IF old # {} THEN now ELSE stored_at
     /\ saved' = [i \in DOMAIN store' |-> saved[i]]
     /\ slast' = [op |-> "restart", had |-> DOMAIN reg]
     /\ UNCHANGED <<vars, probeVars, lockVars, fileVars, uuidVars, now>>

NextStore ==
  \/ StoreAdd
  \/ StoreRemove
  \/ Advance
  \/ Corrupt
  \/ Restart

SpecStore == Init /\ [][NextStore]_storeVars

\* ---- probing the document server ----

\* one fact of the document server changes
UpstreamChange ==
  /\ \/ \E f \in Failures : upstream' = [upstream EXCEPT !.fail = f]
     \/ \E c \in {HTTP_OK, HTTP_NOT_FOUND, HTTP_OTHER} :
          upstream' = [upstream EXCEPT !.status = c]
     \/ \E c \in Contents : upstream' = [upstream EXCEPT !.content = c]
     \/ \E c \in {"absent", "date"} :
          upstream' = [upstream EXCEPT !.created = c]
     \/ \E c \in {HTTP_OK, HTTP_OTHER} :
          upstream' = [upstream EXCEPT !.list_status = c]
     \/ \E i \in DocIds : upstream' = [upstream EXCEPT !.listed = i]
     \/ \E r \in Ranks : upstream' = [upstream EXCEPT !.rank = r]
  /\ upstream' # upstream
  /\ probes' = <<>>
  /\ UNCHANGED <<vars, storeVars, lockVars, fileVars, uuidVars, item>>

\* another item is handed to the probe
Select ==
  /\ \E d \in ProbeItems \ {item} : item' = d
  /\ probes' = <<>>
  /\ UNCHANGED <<vars, storeVars, lockVars, fileVars, uuidVars, upstream>>

\* one call of _is_document_ready that also counts a retry on the item
Probe_counting ==
  /\ Len(probes) < MaxProbes
  /\ probes' = Append(probes, is_document_ready_at(item, upstream))
  /\ item' = [item EXCEPT !.retry_count = @ + 1]
  /\ UNCHANGED <<vars, storeVars, lockVars, fileVars, uuidVars, upstream>>

\* one call of _is_document_ready(item): it assigns to no field of the item
Probe ==
  /\ Len(probes) < MaxProbes
  /\ probes' = Append(probes, is_document_ready_at(item, upstream))
  /\ item' = item
  /\ UNCHANGED <<vars, storeVars, lockVars, fileVars, uuidVars, upstream>>

NextProbe ==
  \/ UpstreamChange
  \/ Select
  \/ Probe

SpecProbe == Init /\ [][NextProbe]_probeVars

\* ---- bot processes taking the instance lock ----

\* the process with pid p exists
Alive(p) ==
  p \in Procs /\ proc[p].pc \notin {"idle", "exited", "ended", "killed"}

\* _is_valid_pid
is_valid_pid(pid) == pid > 0 /\ pid <= PID_LIMIT /\ pid # 1

\* _is_owned_by_current_user: every bot process runs as the current user, and
\* a pid without a /proc entry counts as owned
is_owned_by_current_user(pid) == TRUE

\* main() of a new bot process calls ensure_singleton
Start(p) ==
  /\ proc[p].pc = "idle"
  /\ proc' = [proc EXCEPT ![p].pc = "open"]
  /\ UNCHANGED <<vars, storeVars, probeVars, fileVars, uuidVars, lock_file, inode>>

\* os.open(lock_file, O_CREAT | O_EXCL | O_WRONLY)
OpenExcl(p) ==
  /\ proc[p].pc = "open"
  /\ IF lock_file = 0
     THEN /\ inode' = Append(inode, 0)
          /\ lock_file' = Len(inode) + 1
          /\ proc' = [proc EXCEPT ![p].pc = "write", ![p].fd = Len(inode) + 1]
     ELSE /\ proc' = [proc EXCEPT ![p].pc = "read_open"]
          /\ UNCHANGED <<lock_file, inode>>
  /\ UNCHANGED <<vars, storeVars, probeVars, fileVars, uuidVars>>

\* os.write(lock_fd, pid), atexit.register(cleanup), return lock_fd
WritePid(p) ==
  /\ proc[p].pc = "write"
  /\ inode' = [inode EXCEPT ![proc[p].fd] = p]
  /\ proc' = [proc EXCEPT ![p].pc = "holding"]
  /\ UNCHANGED <<vars, storeVars, probeVars, fileVars, uuidVars, lock_file>>

\* open(lock_file, "r") after FileExistsError
OpenRead(p) ==
  /\ proc[p].pc = "read_open"
  /\ proc' = IF lock_file = 0 THEN [proc EXCEPT ![p].pc = "unlink"]
             ELSE [proc EXCEPT ![p].pc = "read", ![p].rfd = lock_file]
  /\ UNCHANGED <<vars, storeVars, probeVars, fileVars, uuidVars, lock_file, inode>>

\* f.read().strip(), int(), _is_valid_pid, _is_owned_by_current_user
ReadPid(p) ==
  LET content == inode[proc[p].rfd]
  IN /\ proc[p].pc = "read"
     /\ proc' =
          IF content = 0 THEN [proc EXCEPT ![p].pc = "unlink", ![p].rfd = 0]
          ELSE IF ~is_valid_pid(content) \/ ~is_owned_by_current_user(content)
          THEN [proc EXCEPT ![p].pc = "unlink_first", ![p].rfd = 0]
          ELSE [proc EXCEPT ![p].pc = "kill", ![p].rfd = 0,
                            ![p].existing = content]
     /\ UNCHANGED <<vars, storeVars, probeVars, fileVars, uuidVars, lock_file, inode>>

\* os.kill(existing_pid, 0): exit(1) when the process exists
Signal0(p) ==
  /\ proc[p].pc = "kill"
  /\ proc' = IF Alive(proc[p].existing)
             THEN [proc EXCEPT ![p].pc = "exited", ![p].existing = 0]
             ELSE [proc EXCEPT ![p].pc = "unlink", ![p].existing = 0]
  /\ UNCHANGED <<vars, storeVars, probeVars, fileVars, uuidVars, lock_file, inode>>

\* os.unlink(lock_file) and the recursive call; an OSError of the unlink in
\* the try block leads to the unlink of the except block, one there to exit(1)
Unlink(p) ==
  /\ proc[p].pc \in {"unlink", "unlink_first"}
  /\ IF lock_file # 0
     THEN lock_file' = 0 /\ proc' = [proc EXCEPT ![p].pc = "open"]
     ELSE /\ proc' = [proc EXCEPT ![p].pc =
                        IF @ = "unlink_first" THEN "unlink" ELSE "exited"]
          /\ UNCHANGED lock_file
  /\ UNCHANGED <<vars, storeVars, probeVars, fileVars, uuidVars, inode>>

\* the bot ends; cleanup() closes lock_fd and unlinks the path
Exit(p) ==
  /\ proc[p].pc = "holding"
  /\ lock_file' = 0
  /\ proc' = [proc EXCEPT ![p].pc = "ended", ![p].fd = 0]
  /\ UNCHANGED <<vars, storeVars, probeVars, fileVars, uuidVars, inode>>

\* the process is killed: no atexit handler runs
Crash(p) ==
  /\ Alive(p)
  /\ proc' = [proc EXCEPT ![p] = [NotStarted EXCEPT !.pc = "killed"]]
  /\ UNCHANGED <<vars, storeVars, probeVars, fileVars, uuidVars, lock_file, inode>>

NextLock ==
  \E p \in Procs :
    \/ Start(p)
    \/ OpenExcl(p)
    \/ WritePid(p)
    \/ OpenRead(p)
    \/ ReadPid(p)
    \/ Signal0(p)
    \/ Unlink(p)
    \/ Exit(p)
    \/ Crash(p)

SpecLock == Init /\ [][NextLock]_lockVars

\* ---- searching by file name ----

\* another upload is searched for
Rename ==
  /\ \E n \in FileNames \ {filename} : filename' = n
  /\ match' = NoMatch
  /\ UNCHANGED <<vars, storeVars, probeVars, lockVars, uuidVars, answers>>

\* the server answers one of the terms differently
AnswerChange ==
  /\ \E i \in 1..Len(answers) :
       \E a \in Answers \ {answers[i]} : answers' = [answers EXCEPT ![i] = a]
  /\ match' = NoMatch
  /\ UNCHANGED <<vars, storeVars, probeVars, lockVars, uuidVars, filename>>

\* one call of _find_recent_document_by_filename
SearchByFilename ==
  LET r == find_recent_document_by_filename_at(filename, answers)
  IN /\ match' = [op |-> "searched", terms |-> search_terms(filename),
                   val |-> r.val, exc |-> r.exc, tried |-> r.tried]
     /\ UNCHANGED <<vars, storeVars, probeVars, lockVars, uuidVars, filename,
                    answers>>

NextFile ==
  \/ Rename
  \/ AnswerChange
  \/ SearchByFilename

SpecFile == Init /\ [][NextFile]_fileVars

\* ---- searching by token ----

\* the listing query is answered differently
PageChange ==
  /\ \/ \E e \in ExcClasses \cup {"none"} : page' = [page EXCEPT !.exc = e]
     \/ \E c \in {HTTP_OK, HTTP_OTHER} : page' = [page EXCEPT !.status = c]
     \/ \E r \in UNION {[1..n -> Listed] : n \in 0..MaxPage} :
          page' = [page EXCEPT !.results = r]
  /\ page' # page
  /\ hit' = NoHit
  /\ UNCHANGED <<vars, storeVars, probeVars, lockVars, fileVars>>

\* one call of _find_document_by_uuid
SearchByUuid ==
  LET r == find_document_by_uuid_at(page)
  IN /\ hit' = [op |-> "searched", val |-> r.val, exc |-> r.exc]
     /\ UNCHANGED <<vars, storeVars, probeVars, lockVars, fileVars, page>>

NextUuid ==
  \/ PageChange
  \/ SearchByUuid

SpecUuid == Init /\ [][NextUuid]_uuidVars

\* the latest step ran the handler of item t
Handled(t) == last.op = "item" /\ last.id = t

\* C1 (as claimed): every item gets at most one terminal send, and an item
\* the tick cleanup removes has had exactly one
C1_ExactlyOneTerminal ==
  /\ \A t \in TaskIds : sent[t] <= 1
  /\ last.op = "end" => \A t \in last.removed : sent[t] = 1

LifecycleEdges ==
  {<<"processing", "waiting_for_consumption">>,
   <<"waiting_for_consumption", "paperless_indexing">>,
   <<"paperless_indexing", "triggering_ai">>,
   <<"triggering_ai", "waiting_for_ai">>,
   <<"waiting_for_ai", "completed">>,
   <<"triggering_ai", "completed">>}

\* C2: a step changes the status of a tracked object only along an edge of
\* the lifecycle
C2_StatusEdges ==
  [][\A t \in DOMAIN doc :
       (doc'[t] # Gone /\ doc'[t].status # doc[t].status)
         => <<doc[t].status, doc'[t].status>> \in LifecycleEdges]_vars

\* an item completed by the enrichment path
C2_Witness ==
  \E t \in DOMAIN doc :
    Handled(t) /\ doc[t].status = "completed" /\ doc[t].ai_processed

\* C3 (as claimed, read for the runs in which the loop task stays alive):
\* under fair ticking every registered item is eventually removed from the
\* registry
C3_EventuallyRemoved ==
  \A t \in TaskIds :
    Registered(t) ~> (~Registered(t) \/ background_task # "running")

\* C4 (as claimed): after a handler, client or notifier exception the loop
\* task is still running
C4_LoopSurvives ==
  (last.op = "item" /\ last.exc # "none") => background_task = "running"

\* C5 (as claimed): a handler that raises costs its item one retry, leaves its
\* status and registration alone, and the for loop goes on to the next item
C5_HandlerRaiseRetried ==
  [][\A t \in DOMAIN doc :
       (last'.op = "item" /\ last'.id = t /\ last'.exc # "none")
         => /\ doc'[t].retry_count = doc[t].retry_count + 1
            /\ doc'[t].status = doc[t].status
            /\ Registered(t) => Registered(t)'
            /\ background_task' = "running"
            /\ loop_pc' = "iter" /\ snapshot' = snapshot /\ idx' = idx + 1]_vars

\* C6 (as claimed): a send that fails still ends the item in this tick
C6_SendFailureHarmless ==
  (last.op = "item" /\ last.result \in {"swallowed", "raised"})
    => /\ last.done
       /\ last.id \in SeqToSet(completed_tasks)
       /\ background_task = "running"
       /\ sent[last.id] = 1

C8_ConsumptionGiveUpAt60 ==
  \A t \in DOMAIN doc :
    (Handled(t) /\ last.done /\ ~tracking_uuid
       /\ doc[t].status = "waiting_for_consumption")
      => last.kind = "basic" /\ doc[t].retry_count = CONSUMPTION_TIMEOUT

\* C9 (as claimed): an item is ended in waiting_for_ai only by the
\* basic-success notification of its 120th miss
C9_EnrichmentGiveUpAt120 ==
  \A t \in DOMAIN doc :
    (Handled(t) /\ last.done /\ doc[t].status = "waiting_for_ai")
      => last.kind = "basic" /\ doc[t].retry_count = AI_PROCESSING_TIMEOUT

C12_NotFoundMovesOn ==
  [][\A t \in DOMAIN doc :
       (last'.op = "item" /\ last'.id = t /\ doc[t].status = "processing"
          /\ last'.up = "not_found" /\ last'.exc \in {"none", "Exception"})
         => /\ doc'[t].status = "waiting_for_consumption"
            /\ doc'[t].retry_count = 0
            /\ ~last'.done
            /\ t \notin SeqToSet(completed_tasks')
            /\ Registered(t) => Registered(t)'
            /\ background_task' = "running"]_vars

C16_OneSearchPerTick ==
  [][/\ \A t \in DOMAIN doc :
          (last'.op = "item" /\ last'.id = t)
            => IF doc[t].status = "waiting_for_consumption"
                  /\ doc[t].retry_count < max_retries
               THEN last'.search = IF tracking_uuid THEN "uuid" ELSE "filename"
               ELSE last'.search = "none"
     /\ last'.op # "item" => last'.search = "none"]_vars

\* a token search has just missed
C16_Witness ==
  \E t \in DOMAIN doc :
    /\ Handled(t) /\ tracking_uuid /\ last.search = "uuid" /\ last.up = "miss"
    /\ doc[t].status = "waiting_for_consumption" /\ doc[t].retry_count > 1

\* C17: the document_id of a tracked object changes only from unset to set,
\* and only on the step that moves it from waiting_for_consumption to
\* paperless_indexing; an object created without id in processing and one
\* created with id in paperless_indexing are the only ones add_document makes
C17_DocumentIdSetOnce ==
  [][/\ \A t \in DOMAIN doc :
          (doc'[t] # Gone /\ doc'[t].document_id # doc[t].document_id)
            => /\ doc[t].document_id = NoDocumentId
               /\ doc[t].status = "waiting_for_consumption"
               /\ doc'[t].status = "paperless_indexing"
               /\ last'.op = "item" /\ last'.id = t /\ last'.up = "hit"
     /\ \A t \in DOMAIN doc' \ DOMAIN doc :
          /\ last'.op = "add"
          /\ doc'[t].document_id # NoDocumentId
               <=> doc'[t].status = "paperless_indexing"]_vars

\* an item that got its id from a search is ended by the timeout check
C17_Witness ==
  \E t \in DOMAIN doc :
    /\ Handled(t) /\ last.kind = "timeout"
    /\ doc[t].status = "paperless_indexing"
    /\ doc[t].document_id # NoDocumentId

\* C18 (as claimed): under fair ticking an item whose status is completed is
\* eventually out of the registry, and an id that has left the registry is
\* never in it again
C18_CompletedRemoved ==
  /\ \A t \in TaskIds :
       (Registered(t) /\ doc[t].status = "completed") ~> ~Registered(t)
  /\ [][\A t \in DOMAIN doc : ~Registered(t) => ~Registered(t)']_vars

\* C19 (as claimed): the cancellation that stop_tracking requests ends the
\* loop only between ticks, with no handler in flight and no finished item
\* waiting for the cleanup
C19_StopLetsTickFinish ==
  [][last'.op = "cancelled"
       => /\ loop_pc = "sleep"
          /\ completed_tasks = <<>>
          /\ \A t \in DOMAIN doc : doc'[t] \in {doc[t], Gone}
          /\ sent' = sent]_vars

\* C20 (as claimed): constructing a tracker leaves no live entry, and keeps
\* every well-formed record of a snapshot saved less than 24 h ago, with an
\* upload_time string that parses back to the original timestamp
C20_RoundTripSavedFresh ==
  [][slast'.op = "restart"
       => /\ reg' = EmptyDict
          /\ \A i \in DOMAIN store :
               ("upload_time" \in DOMAIN store[i]
                  /\ parses(store[i].upload_time) /\ ~Expired(now, stored_at))
                 => /\ i \in DOMAIN store'
                    /\ parses(store'[i].upload_time)
                    /\ fromisoformat(store'[i].upload_time) = saved[i]]_storeVars

\* C20 (amended): constructing a tracker leaves no live entry, and keeps
\* every well-formed record whose upload_time is less than 24 h old, with an
\* upload_time string that parses back to the original timestamp
C20_RoundTripUploadedFresh ==
  [][slast'.op = "restart"
       => /\ reg' = EmptyDict
          /\ \A i \in DOMAIN store :
               ("upload_time" \in DOMAIN store[i]
                  /\ parses(store[i].upload_time) /\ ~Older(now, saved[i])
                  /\ (now.secs - saved[i].secs < CACHE_EXPIRE_TIME
                        \/ now.micro < saved[i].micro))
                 => /\ i \in DOMAIN store'
                    /\ parses(store'[i].upload_time)
                    /\ fromisoformat(store'[i].upload_time) = saved[i]]_storeVars

\* a restart has just found a record with a fractional timestamp, taken
\* half a day earlier by a process that was tracking it
C20_Witness ==
  /\ slast.op = "restart" /\ slast.had # {} /\ reg = EmptyDict
  /\ \E i \in DOMAIN store :
       /\ saved[i].micro # 0 /\ now.secs > saved[i].secs
       /\ "upload_time" \in DOMAIN store[i]
       /\ fromisoformat(store[i].upload_time) = saved[i]

\* C21 (as claimed): the restore deletes an entry of the snapshot exactly
\* when its upload_time is missing, does not parse or is older than 24 h,
\* and keeps every other entry as it is
C21_RestoreDeletesExactly ==
  [][slast'.op = "restart"
       => \A i \in DOMAIN cache_get :
            LET e == cache_get[i] IN
            IF \/ "upload_time" \notin DOMAIN e
               \/ ~parses(e.upload_time)
               \/ Older(now, fromisoformat(e.upload_time))
            THEN i \notin DOMAIN store'
            ELSE i \in DOMAIN store' /\ store'[i] = e]_storeVars

C23_StartClears ==
  [][last'.op = "start"
       => /\ tracked_documents' = <<>>
          /\ background_task' \in {"running", "cancelling"}
          /\ background_task \in {"running", "cancelling"}
               => (background_task' = background_task /\ loop_pc' = loop_pc
                     /\ snapshot' = snapshot)]_vars

\* start_tracking has just returned in the middle of a tick of a running
\* loop, with an item registered before the call
C23_Witness ==
  /\ last.op = "start" /\ tracked_documents = <<>>
  /\ background_task = "running" /\ snapshot # <<>> /\ cache # {}

\* ---- C24 ----
\* the document server holds everything the probe asks for: the fetch answers
\* 200 with a content that has a character other than a blank and a created
\* timestamp, and the listing answers 200 with the item's id among its first
\* page_size entries
ServerReady(d, u) ==
  /\ u.fail.at = "none"
  /\ u.status = 200
  /\ u.content.kind = "str"
  /\ \E k \in 1..Len(u.content.text) : u.content.text[k] # " "
  /\ u.created = "date"
  /\ u.list_status = 200
  /\ u.listed = d.document_id
  /\ u.rank \in 1..50

\* C24: the readiness probe returns true exactly when the item has a document
\* id, the fetch by id answers 200, the content is not empty after trimming,
\* the created timestamp is there and the id is on the first page (50 entries,
\* newest first) of the listing; a 404, another non-200 status, a listing
\* query that fails and a client error each make it return false.
C24_ReadyIff ==
  \A k \in 1..Len(probes) :
    LET r == probes[k]
        returned(v) == r.exc = "none" /\ r.val = v
    IN /\ returned(TRUE) <=>
            (item.document_id # NoDocumentId /\ ServerReady(item, upstream))
       /\ upstream.fail.at = "none" /\ upstream.status # 200 => returned(FALSE)
       /\ upstream.fail.at = "none" /\ upstream.list_status # 200
            => returned(FALSE)
       /\ upstream.fail.exc = "ClientError" => returned(FALSE)

\* the probe answered true for an item found at the last place of the first page
C24_Witness ==
  /\ probes # <<>>
  /\ probes[1] = [val |-> TRUE, exc |-> "none"]
  /\ upstream.rank = page_size
  /\ upstream.content.text = <<"x", " ">>

Holder(p) == proc[p].pc = "holding"

\* C26: at no time do two live bot processes both hold the instance lock,
\* however the steps of processes starting together interleave, a stale lock
\* file and a lock file whose pid is not yet written included.
C26_OneHolder == Cardinality({p \in Procs : Holder(p)}) <= 1

\* ---- C27 ----
\* C27 (as claimed): a tick that finds an item that is not completed with
\* retry_count >= max_retries sends the timeout notification, runs no handler
\* and no upstream call for it, and ends it, so that the cleanup of the tick
\* removes it
C27_WatchdogEnds ==
  [][/\ \A t \in DOMAIN doc :
          (/\ last'.op = "item" /\ last'.id = t
           /\ doc[t].status # "completed"
           /\ doc[t].retry_count >= max_retries)
            => /\ last'.kind = "timeout"
               /\ last'.up = "none" /\ last'.search = "none"
               /\ last'.done
               /\ t \in SeqToSet(completed_tasks')
     /\ last'.op = "end"
          => \A t \in SeqToSet(completed_tasks) : t \notin SeqToSet(tracked_documents')]_vars

\* ---- C28 ----
\* the upstream call of the latest handler failed with a transient error: a
\* ClientError (network failure) or a ValueError (malformed response), caught
\* by the handler or let through
TransientFailure(l) ==
  \/ l.up = "error"
  \/ l.up = "raised" /\ l.exc \in {"ClientError", "ValueError"}

\* C28 (as claimed): a tick whose upstream call fails with a transient error
\* leaves the status of the item as it was, adds exactly one to retry_count
\* and lets no exception out of the handler
C28_TransientCounted ==
  [][\A t \in DOMAIN doc :
       (/\ last'.op = "item" /\ last'.id = t
        /\ doc[t].status # "completed"
        /\ TransientFailure(last'))
         => /\ doc'[t].status = doc[t].status
            /\ doc'[t].retry_count = doc[t].retry_count + 1
            /\ last'.exc = "none"]_vars

\* ---- C29 ----
\* edges from processing to the status of d; completed is one edge after the
\* stage it was reached from
Depth(d) ==
  CASE d.status = "processing" -> 0
    [] d.status = "waiting_for_consumption" -> 1
    [] d.status = "paperless_indexing" -> 2
    [] d.status = "triggering_ai" -> 3
    [] d.status = "waiting_for_ai" -> 4
    [] d.status = "completed" -> IF d.ai_processed THEN 5 ELSE 4
    [] OTHER -> 0

\* C29: the handler of an item is called at most once in each tick the item
\* is part of, a call moves the item along at most one edge of the lifecycle
\* and nothing else moves it, so that an item registered in processing that
\* is completed through the enrichment stages has been part of five ticks at
\* least.
C29_OneEdgePerTick ==
  /\ [](\A t \in DOMAIN hist.of :
          doc[t] # Gone
            => /\ hist.of[t].calls <= hist.of[t].ticks
               /\ Depth(doc[t]) - Depth([status |-> hist.of[t].from])
                    <= hist.of[t].calls
               /\ (/\ hist.of[t].from = "processing"
                   /\ doc[t].status = "completed" /\ doc[t].ai_processed)
                    => hist.of[t].ticks >= 5)
  /\ [][\A t \in DOMAIN doc :
          (doc'[t] # Gone /\ doc'[t].status # doc[t].status)
            => /\ <<doc[t].status, doc'[t].status>> \in LifecycleEdges
               /\ last'.op \in {"item", "cancelled"} /\ last'.id = t]_vars

\* an item registered in processing was completed by the enrichment handler
\* in its fifth tick
C29_Witness ==
  \E t \in DOMAIN hist.of :
    /\ hist.of[t] = [from |-> "processing", ticks |-> 5, calls |-> 5]
    /\ doc[t].status = "completed" /\ doc[t].ai_processed
    /\ Handled(t)

\* ---- C30 ----
\* C30 (as claimed): an item registered while the for loop of a tick is under
\* way is not in the snapshot of that tick, handlers run for the items of the
\* snapshot only, the cleanup leaves the items outside the snapshot in the
\* registry, the next tick takes the whole registry as its snapshot, and a
\* tick runs the handler of every item of its snapshot
C30_SnapshotPass ==
  [][/\ (last'.op = "add" /\ loop_pc = "iter")
          => /\ snapshot' = snapshot
             /\ last'.id \notin SeqToSet(snapshot')
             /\ last'.id \in SeqToSet(tracked_documents')
     /\ last'.op = "item" => last'.id \in SeqToSet(snapshot)
     /\ last'.op = "end"
          => \A t \in SeqToSet(tracked_documents) \ SeqToSet(snapshot) :
               t \in SeqToSet(tracked_documents')
     /\ last'.op = "begin" => snapshot' = tracked_documents
     /\ (/\ loop_pc = "iter" /\ loop_pc' = "sleep"
         /\ background_task = "running" /\ background_task' = "running")
          => idx >= Len(snapshot)]_vars

\* ---- C31 ----
RECURSIVE has_dot(_)
\* the name has a dot
has_dot(s) == s # <<>> /\ (Head(s) = "." \/ has_dot(Tail(s)))

RECURSIVE without_extension(_)
\* the display name without its extension: the characters before the last dot
without_extension(s) ==
  IF ~has_dot(s) THEN s
  ELSE IF ~has_dot(Tail(s)) /\ Head(s) = "." THEN <<>>
  ELSE <<Head(s)>> \o without_extension(Tail(s))

\* a result that has an id and a created timestamp at or after upload_time
\* minus 10 minutes
Qualifies(c) ==
  /\ c.id # NoDocumentId
  /\ c.created.kind \in {"naive", "aware"}
  /\ c.created.at >= 0 - RECENT_MINUTES

RECURSIVE FirstQualifying(_, _)
\* the id of the first qualifying result of the terms from i on, errors on a
\* term passed over
FirstQualifying(ans, i) ==
  IF i > Len(ans) THEN NoDocumentId
  ELSE LET q == {k \in 1..Len(ans[i].results) : Qualifies(ans[i].results[k])}
       IN IF ans[i].exc = "none" /\ q # {}
          THEN ans[i].results[CHOOSE k \in q : \A j \in q : k <= j].id
          ELSE FirstQualifying(ans, i + 1)

\* C31 (as claimed): a filename search tries the name without its extension,
\* the name and the empty query in this order, ends normally whatever the
\* terms answer, and returns the id of the first result in that order that
\* has an id and a created timestamp not older than upload_time minus ten
\* minutes, or no match when there is none
C31_FirstRecentByTerm ==
  match.op = "searched"
    => /\ match.terms = <<without_extension(filename), filename, <<>>>>
       /\ match.exc = "none"
       /\ match.val = FirstQualifying(answers, 1)

\* ---- C32 ----
\* the entries of the page that contain the token in the original file name
\* or in the title
Containing(pg) ==
  {k \in 1..Len(pg.results) :
     pg.results[k].original_file_name = "token" \/ pg.results[k].title = "token"}

\* C32 (as claimed): when the listing query does not fail with an error the
\* helper does not catch, a token search ends normally; it returns the id of
\* the first listed document with the token in its original file name or
\* title, and no match when there is none or when the query failed
C32_FirstContaining ==
  (hit.op = "searched" /\ page.exc \in HelperCaught \cup {"none"})
    => /\ hit.exc = "none"
       /\ hit.val =
            IF page.exc = "none" /\ page.status = HTTP_OK /\ Containing(page) # {}
            THEN page.results[CHOOSE k \in Containing(page) :
                                \A j \in Containing(page) : k <= j].id
            ELSE NoDocumentId

\* ---- C33 ----
\* the analysis holds non-empty tags, a correspondent or a document type
Analysed(d) ==
  /\ d.ai_analysis # <<>>
  /\ LET a == d.ai_analysis[1]
     IN a.tags \/ a.correspondent \/ a.document_type

\* C33: an item with ai_processed set has an analysis with tags, a
\* correspondent or a document type and is completed, and the analysis of an
\* item is assigned only while it is unset
C33_ProcessedHasAnalysis ==
  /\ [](\A t \in DOMAIN doc :
          doc[t].ai_processed => Analysed(doc[t]) /\ doc[t].status = "completed")
  /\ [][\A t \in DOMAIN doc :
          doc'[t].ai_analysis # doc[t].ai_analysis
            => doc[t].ai_analysis = <<>> \/ doc'[t] = Gone]_vars

\* the enrichment handler has just stored the analysis of an item
C33_Witness ==
  \E t \in DOMAIN doc :
    /\ Handled(t) /\ last.up = "hit"
    /\ doc[t].ai_processed /\ Analysed(doc[t]) /\ doc[t].status = "completed"

\* ---- C34 ----
\* the step is a tick given up by the outer except clause of the loop
Aborted ==
  /\ loop_pc = "iter" /\ loop_pc' = "sleep"
  /\ last'.op = "item" /\ last'.exc \in OuterCaught \ InnerCaught

\* C34 (as claimed): when the outer except clause gives up a tick, an item
\* whose handler had sent its last notification and reported completion in
\* that tick leaves the registry, or is left completed so that the next tick
\* removes it without a notification
C34_AbortKeepsCompletion ==
  [][Aborted
       => \A t \in SeqToSet(completed_tasks) :
            \/ t \notin SeqToSet(tracked_documents')
            \/ doc'[t].status = "completed"]_vars

\* ---- C35 ----
\* C35 (as claimed): an item that the cleanup of a tick deletes from the
\* registry has status completed
C35_RemovedCompleted ==
  [][\A t \in DOMAIN doc :
       (last'.op = "end" /\ Registered(t) /\ t \notin SeqToSet(tracked_documents'))
         => doc[t].status = "completed"]_vars

\* ---- C36 ----
\* C36: an item in paperless_indexing, triggering_ai, waiting_for_ai or
\* completed has a document id, and an item in processing or
\* waiting_for_consumption has none
C36_IdFollowsStatus ==
  \A t \in DOMAIN doc :
    /\ doc[t].status \in {"paperless_indexing", "triggering_ai", "waiting_for_ai",
                          "completed"}
         => doc[t].document_id # NoDocumentId
    /\ doc[t].status \in {"processing", "waiting_for_consumption"}
         => doc[t].document_id = NoDocumentId

\* the consumption handler has just found the document of an item
C36_Witness ==
  \E t \in DOMAIN doc :
    /\ Handled(t) /\ last.up = "hit" /\ last.search # "none"
    /\ doc[t].status = "paperless_indexing"
    /\ doc[t].document_id \in DocIds

\* ---- C37 ----
\* C37 (as claimed): when start_tracking returns, the loop task of the
\* tracker is live and no cancellation of it is pending, so that it goes on
\* ticking
C37_StartLeavesLoop ==
  [][last'.op = "start" => background_task' = "running"]_vars

\* ---- C38 ----
\* C38 (as claimed): while no tick is in progress the ids of the persisted
\* snapshot are the ids of the registry
C38_SnapshotIsRegistry ==
  loop_pc = "sleep" => cache = SeqToSet(tracked_documents)

\* ---- C39 ----
\* C39: for an item in processing, a lookup that returns adds one to
\* retry_count and changes nothing else, whatever status it reports; the item
\* leaves processing only on the not-found signal and is finished only by the
\* watchdog timeout; no tick sends the processing-failed notification
C39_ProcessingOnlyCounts ==
  [][/\ \A t \in DOMAIN doc :
          (last'.op = "item" /\ last'.id = t /\ doc[t].status = "processing")
            => /\ last'.up = "returned"
                    => /\ doc'[t] = [doc[t] EXCEPT !.retry_count = @ + 1]
                       /\ ~last'.done /\ last'.kind = "none"
               /\ doc'[t].status \notin {"processing", "gone"}
                    => /\ doc'[t].status = "waiting_for_consumption"
                       /\ last'.up = "not_found"
               /\ last'.done => last'.kind = "timeout"
     /\ last'.kind # "failed"]_vars

\* the lookup of an item in processing has just returned
C39_Witness ==
  \E t \in DOMAIN doc :
    /\ Handled(t) /\ last.up = "returned" /\ last.exc = "none"
    /\ doc[t].status = "processing" /\ doc[t].retry_count >= 1

\* ---- C40 ----
\* C40 (as claimed): the retry_count of a registered item is never negative
\* and never above max_retries
C40_RetryBounded ==
  \A t \in SeqToSet(tracked_documents) :
    0 <= doc[t].retry_count /\ doc[t].retry_count <= max_retries

====
